---- MODULE Spec2Model ----
(***************************************************************************)
(* RadAlert, check_backlog_gpt.py: one run of run_once (schedule gate,     *)
(* browser session, login discovery, capture, model call, alert decision), *)
(* the Telegram notifier and the parse of the model's answer.              *)
(*                                                                         *)
(* Conventions.                                                            *)
(*  - Every awaited browser call and every HTTP request is one step; its   *)
(*    outcome (success, or the exception it raises) is chosen by the       *)
(*    environment.                                                         *)
(*  - A text is modelled by its characters' positions: a text of length L  *)
(*    is the interval 0..L, and text[i:j] is the pair <<i, j>> clipped to  *)
(*    L as Python clips a slice.                                           *)
(*  - The model's answer is a sequence of JSON tokens: "{", "}", ",", a    *)
(*    key with its colon ("CT:"), a number ("25"), or a word of prose "w". *)
(*  - The document decides which Frame Targets hold a login form that the  *)
(*    selectors match (formOn); on such a target some selector of each     *)
(*    phase works, on any other target at least one phase fails.           *)
(***************************************************************************)
EXTENDS Integers, Sequences, FiniteSets, TLC

\* ---------------------------------------------------------------- bounds
MaxFrames == 2          \* nested frames page.frames may list
MaxLen == 6             \* tokens of a model answer in SpecParse
MaxTextLen == 10510     \* characters of a notification text in SpecChunk
MaxOver == 60           \* distance from 0 and from the markup cap in SpecTrunc

\* ------------------------------------------------------ program constants
THRESHOLD == 25
CHUNK == 3500
MARKUP_CAP == 120000
NumUserSelectors == 7
NumPassSelectors == 5
NumSubmitSelectors == 6

Min(a, b) == IF a < b THEN a ELSE b

\* ------------------------------------------------------------ JSON tokens
KeyTokens == {"count_ct_mri_over_60:", "by_modality:", "CT:", "MRI:", "k:"}
NumTokens == {"0", "1", "24", "25", "26"}

NumVal(t) ==
  CASE t = "0" -> 0
    [] t = "1" -> 1
    [] t = "24" -> 24
    [] t = "25" -> 25
    [] t = "26" -> 26

\* json.loads, the decoder's grammar on tokens:
\*   value ::= number | "{" "}" | "{" key value ("," key value)* "}"
\* ValueEnd(s, i) is the index after the value that starts at s[i], 0 if none does.
RECURSIVE ValueEnd(_, _), MembersEnd(_, _)
ValueEnd(s, i) ==
  IF i > Len(s) THEN 0
  ELSE IF s[i] \in NumTokens THEN i + 1
  ELSE IF s[i] = "{"
    THEN IF i + 1 <= Len(s) /\ s[i + 1] = "}" THEN i + 2 ELSE MembersEnd(s, i + 1)
  ELSE 0

MembersEnd(s, i) ==
  IF i > Len(s) \/ s[i] \notin KeyTokens THEN 0
  ELSE LET j == ValueEnd(s, i + 1) IN
       IF j = 0 \/ j > Len(s) THEN 0
       ELSE IF s[j] = "}" THEN j + 1
       ELSE IF s[j] = "," THEN MembersEnd(s, j + 1)
       ELSE 0

\* json.loads(s) succeeds iff one value spans the whole text.
json_loads_ok(s) == ValueEnd(s, 1) = Len(s) + 1

\* re.search(r"\{.*\}", content, re.S): leftmost "{" that some "}" follows,
\* greedy up to the last "}". <<0, 0>> when there is no match.
re_search_braces(content) ==
  LET opens == {i \in 1..Len(content) :
                  content[i] = "{" /\ \E j \in (i + 1)..Len(content) : content[j] = "}"}
  IN IF opens = {} THEN <<0, 0>>
     ELSE LET i == CHOOSE x \in opens : \A y \in opens : x <= y
              closes == {j \in (i + 1)..Len(content) : content[j] = "}"}
          IN <<i, CHOOSE x \in closes : \A y \in closes : x >= y>>

\* ask_gpt_vision's parse: [path, result]; path "direct" or "recovery" on
\* success, "JSONDecodeError" when the exception leaves the function.
\* (Whitespace is no token: json.loads skips it, so strip() changes nothing.)
ParseContent(content) ==
  IF json_loads_ok(content) THEN [path |-> "direct", result |-> content]
  ELSE LET m == re_search_braces(content) IN
       IF m = <<0, 0>> THEN [path |-> "JSONDecodeError", result |-> <<>>]
       ELSE LET group0 == SubSeq(content, m[1], m[2]) IN
            IF json_loads_ok(group0) THEN [path |-> "recovery", result |-> group0]
            ELSE [path |-> "JSONDecodeError", result |-> <<>>]

\* dict.get(key, default) on a parsed object, given as its tokens: the value
\* tokens of the last member named key, <<>> when the key is missing.
RECURSIVE MemberValue(_, _, _)
MemberValue(obj, i, key) ==
  IF i > Len(obj) \/ obj[i] = "}" THEN <<>>
  ELSE LET j == ValueEnd(obj, i + 1)
           later == IF obj[j] = "," THEN MemberValue(obj, j + 1, key) ELSE <<>>
       IN IF later # <<>> THEN later
          ELSE IF obj[i] = key THEN SubSeq(obj, i + 1, j - 1)
          ELSE <<>>

GetInt(obj, key, default) ==
  LET v == IF obj = <<>> THEN <<>> ELSE MemberValue(obj, 2, key) IN
  IF v = <<>> THEN default ELSE NumVal(v[1])

\* The parsed value is a dict.
IsObject(v) == v # <<>> /\ v[1] = "{"

GetObj(obj, key) == IF obj = <<>> THEN <<>> ELSE MemberValue(obj, 2, key)

\* lines 298-301: whether the lookup of key raises; dict.get returns its
\* default for a key that is missing.
SubscriptRaises(obj, key) == obj = <<>> \/ MemberValue(obj, 2, key) = <<>>
GetRaises(obj, key) == FALSE

\* ------------------------------------------------------------------ state
VARIABLES
  pc,            \* position of the run: see the actions
  DRY_RUN,       \* configuration flag (line 30)
  inWindow,      \* what within_window_now returns at the time of the gate
  browser, ctx,  \* "none" | "open" | "closed"
  browserCloses, ctxCloses,   \* how often each went from open to closed
  error,         \* "none", or the exception that is propagating out of run_once
  target,        \* Frame Target being tried: 0 the page, 1..nframes the nested frames
  nframes,       \* nested frames listed by page.frames when the loop started
  sel,           \* index of the selector being tried in the current phase
  user_ok, pass_ok,           \* try_fill_on_frame's locals
  filledAt,      \* the selector that filled each field on this target, 0 for none
  formOn,        \* the Frame Targets of the document that hold a login form
  hist,          \* per Frame Target: what try_fill_on_frame did on it
  logged_in,     \* "unset" | "true" | "false": what perform_login returned
  shots,         \* screenshots taken: "login_diag", "page"
  table_html,    \* where the markup came from: "none" | "worklist" | "first_table" | "page"
  markupLen,     \* the length of the captured markup (table_html)
  capTried,      \* the markup sub-steps attempted, in order
  modelCalls,    \* requests sent to the vision model
  httpStatus,    \* status of the model's response, 0 before there is one
  payloadMarkup, \* the part of the markup put in the model request: <<lo, hi>>
  content,       \* the model's answer, as tokens
  parsePath,     \* "none" | "direct" | "recovery" | "JSONDecodeError"
  result,        \* the parsed object, as its tokens
  decided,       \* the live-mode decision: <<>>, or [ct_mri, ct, mri, alert]
  calls,         \* notifier calls made by run_once, in order: [op, purpose]
  posts,         \* requests sent to Telegram, in order
  txt,           \* the text send_telegram_text is sending: [purpose, len]
  off,           \* send_telegram_text's i
  retPc,         \* where the notifier returns to
  inWith         \* whether the notifier was called inside the "async with" block

sessVars  == <<browser, ctx, browserCloses, ctxCloses>>
loginVars == <<target, nframes, formOn, sel, user_ok, pass_ok, filledAt, hist, logged_in>>
capVars   == <<shots, table_html, markupLen, capTried>>
modelVars == <<modelCalls, httpStatus, payloadMarkup, content, parsePath, result, decided>>
notifVars == <<calls, posts, txt, off, retPc, inWith>>
cfgVars   == <<DRY_RUN, inWindow>>
vars == <<pc, error, cfgVars, sessVars, loginVars, capVars, modelVars, notifVars>>

Targets == 0..MaxFrames
NoHist == [user |-> FALSE, pass |-> FALSE, submitTried |-> FALSE, submitted |-> FALSE,
           tries |-> 0]
NoFill == [user |-> 0, pass |-> 0]

\* A text no longer than CHUNK (the alert, the report of a failed photo).
ShortLen == CHUNK
\* Lengths of the dry-run dump: it holds the model's sample rows, of any length.
DumpLens == {ShortLen, CHUNK + 1, 2 * CHUNK + 1}

\* The statuses the model's API answers with: success, or a 4xx/5xx error
\* (requests follows redirects itself).
ModelStatuses == {200, 429, 500}

\* The answers the vision model gives in a run: objects with and without the
\* keys of the schema, an answer that is a bare number, prose around an
\* object, and texts that hold no JSON value.
ModelContents ==
  { <<"25">>,
    <<"{", "count_ct_mri_over_60:", "26", ",", "by_modality:",
          "{", "CT:", "25", ",", "MRI:", "1", "}", "}">>,
    <<"{", "count_ct_mri_over_60:", "25", ",", "by_modality:",
          "{", "CT:", "24", ",", "MRI:", "1", "}", "}">>,
    <<"{", "count_ct_mri_over_60:", "24", ",", "by_modality:", "{", "CT:", "24", "}", "}">>,
    <<"{", "count_ct_mri_over_60:", "26", "}">>,
    <<"{", "by_modality:", "{", "MRI:", "26", "}", "}">>,
    <<"{", "}">>,
    <<"w", "{", "count_ct_mri_over_60:", "26", ",", "by_modality:",
          "{", "CT:", "26", ",", "MRI:", "0", "}", "}", "w">>,
    <<"w", "w">>,
    <<"{", "count_ct_mri_over_60:", "26", "}", "w", "{", "count_ct_mri_over_60:", "0", "}">>,
    <<"w", "{", "count_ct_mri_over_60:", "}">> }

\* ---------------------------------------------------------------- helpers
\* within_window_now: Mon-Fri at 18, 20, 22; Sat every two hours from 4 to 22.
within_window_now(wd, hr) ==
  \/ wd \in 0..4 /\ hr \in {18, 20, 22}
  \/ wd = 5 /\ hr \in {4, 6, 8, 10, 12, 14, 16, 18, 20, 22}

\* line 230: the run is skipped
GateSkipsInWindow(dry, win) == ~dry /\ win
GateSkips(dry, win) == ~dry /\ ~win

\* "async with async_playwright()" on exit stops the driver, which ends every
\* browser and context that is still open.
DriverStopKeeps(s) == s
DriverStop(s) == IF s = "open" THEN "closed" ELSE s

\* The try/except around a strategy's call catches whatever it raises
\* (phases "reveal", "user", "pass", "submit").
CatchesAllButSubmit(phase) == phase # "submit"
Catches(phase) == TRUE

\* lines 176, 185: the break after the selector that filled the field
BreaksAfterPassOnly(phase) == phase = "pass"
BreaksOnSuccess(phase) == TRUE

\* line 213: the for loop has a next frame after nested frame t of n
SkipsLastFrame(t, n) == t < n - 1
MoreFrames(t, n) == t < n

\* lines 209-210, 217-218: perform_login returns True at once when
\* try_fill_on_frame returned True
ReturnsNever(ok) == FALSE
ReturnsOn(ok) == ok

\* line 189: the submit loop runs
SubmitAfterEither(u, p) == u \/ p
BothFilled(u, p) == u /\ p

\* resp.raise_for_status(): the exception for a status, "none" for 2xx/3xx
raise_for_status(status) == IF status >= 400 THEN "HTTPError" ELSE "none"

\* line 130: table_html[:120000], as the positions of the markup it keeps
TruncateOneMore(len) == <<0, Min(len, MARKUP_CAP + 1)>>
Truncate(len) == <<0, Min(len, MARKUP_CAP)>>

\* Lengths of the captured markup: a worklist that fits the cap of line 130
\* and one that does not.
MarkupLens == {MARKUP_CAP, MARKUP_CAP + 1}

\* lines 268, 271: "except Exception" around a markup sub-step
CatchesWorklistOnly(step) == step = "worklist"
CaptureCatches(step) == TRUE

\* line 303
AlertAtThreshold(ct_mri) == ct_mri >= THRESHOLD
AlertDue(ct_mri) == ct_mri > THRESHOLD

\* line 291
DumpNever(dry) == FALSE
DumpsResult(dry) == dry

\* send_telegram_text: line 64, the slice of line 69, the step of line 71
SendsWhole(len) == len <= CHUNK
SliceOneShort(len, i) == <<Min(i, len), Min(i + CHUNK - 1, len)>>
ChunkSlice(len, i) == <<Min(i, len), Min(i + CHUNK, len)>>
NextOffset(i) == i + CHUNK

\* An exception leaves the current statement: inside the "async with" block
\* it first runs the block's exit.
RaiseTo(within) == IF within THEN "with_exit" ELSE "raised"

\* An exception of ask_gpt_vision (lines 136, 137, 146, 147) is caught nowhere:
\* it leaves run_once at line 288, which is outside the "async with" block.
ExtractionRetries(exc) == IF exc = "JSONDecodeError" THEN "ask" ELSE RaiseTo(FALSE)
ExtractionRaises(exc) == RaiseTo(FALSE)

\* Calls of the notifier from run_once.
CallPhoto(purpose, ret, within) ==
  /\ calls' = Append(calls, [op |-> "photo", purpose |-> purpose])
  /\ txt' = [purpose |-> purpose, len |-> 0]
  /\ off' = 0
  /\ retPc' = ret
  /\ inWith' = within
  /\ pc' = "photo_post"
  /\ UNCHANGED posts

CallText(purpose, len, ret, within) ==
  /\ calls' = Append(calls, [op |-> "text", purpose |-> purpose])
  /\ txt' = [purpose |-> purpose, len |-> len]
  /\ off' = 0
  /\ retPc' = ret
  /\ inWith' = within
  /\ pc' = "text_post"
  /\ UNCHANGED posts

\* ------------------------------------------------------------------- Init
Init ==
  /\ pc = "gate"
  /\ DRY_RUN \in BOOLEAN
  /\ inWindow = FALSE
  /\ browser = "none" /\ ctx = "none"
  /\ browserCloses = 0 /\ ctxCloses = 0
  /\ error = "none"
  /\ target = 0 /\ nframes = 0 /\ sel = 0
  /\ formOn = {}
  /\ user_ok = FALSE /\ pass_ok = FALSE
  /\ filledAt = NoFill
  /\ hist = [t \in Targets |-> NoHist]
  /\ logged_in = "unset"
  /\ shots = {} /\ table_html = "none" /\ markupLen = 0 /\ capTried = <<>>
  /\ modelCalls = 0 /\ httpStatus = 0 /\ payloadMarkup = <<0, 0>> /\ content = <<>>
  /\ parsePath = "none" /\ result = <<>> /\ decided = <<>>
  /\ calls = <<>> /\ posts = <<>>
  /\ txt = [purpose |-> "none", len |-> 0]
  /\ off = 0 /\ retPc = "none" /\ inWith = FALSE

\* ------------------------------------------------- run_once: gate, session
\* lines 228-231
Gate ==
  /\ pc = "gate"
  /\ \E wd \in 0..6, hr \in 0..23 :
       /\ inWindow' = within_window_now(wd, hr)
       /\ pc' = IF GateSkips(DRY_RUN, inWindow') THEN "returned" ELSE "launch"
  /\ UNCHANGED <<error, DRY_RUN, sessVars, loginVars, capVars, modelVars, notifVars>>

\* lines 233-236: launch, new_context, new_page
Launch ==
  /\ pc = "launch"
  /\ browser' = "open" /\ ctx' = "open"
  /\ pc' = "goto"
  /\ UNCHANGED <<error, cfgVars, browserCloses, ctxCloses, loginVars, capVars,
                 modelVars, notifVars>>

\* line 239: page.goto succeeds, or raises (navigation error, timeout)
Goto ==
  /\ pc = "goto"
  /\ \/ pc' = "reveal" /\ UNCHANGED error
     \/ pc' = RaiseTo(TRUE) /\ error' = "NavigationError"
  /\ UNCHANGED <<cfgVars, sessVars, loginVars, capVars, modelVars, notifVars>>

\* lines 281-282: ctx.close(), browser.close()
Close ==
  /\ pc = "close"
  /\ ctx' = "closed" /\ browser' = "closed"
  /\ ctxCloses' = ctxCloses + (IF ctx = "open" THEN 1 ELSE 0)
  /\ browserCloses' = browserCloses + (IF browser = "open" THEN 1 ELSE 0)
  /\ pc' = "with_exit"
  /\ UNCHANGED <<error, cfgVars, loginVars, capVars, modelVars, notifVars>>

\* line 233, leaving the "async with" block, normally or by an exception
WithExit ==
  /\ pc = "with_exit"
  /\ ctx' = DriverStop(ctx) /\ browser' = DriverStop(browser)
  /\ ctxCloses' = ctxCloses + (IF ctx' # ctx THEN 1 ELSE 0)
  /\ browserCloses' = browserCloses + (IF browser' # browser THEN 1 ELSE 0)
  /\ pc' = IF error = "none" THEN "ask" ELSE "raised"
  /\ UNCHANGED <<error, cfgVars, loginVars, capVars, modelVars, notifVars>>

\* --------------------------------------- perform_login, try_fill_on_frame
\* What one fill or click can do on Frame Target t, "last" telling that it is
\* the phase's last selector. A target of formOn has a field or control that
\* some selector of each phase matches (which one is the document's choice);
\* any other target lacks one of the three, so a click after two fills fails.
FillOutcomes(t, last) == IF t \in formOn /\ last THEN {TRUE} ELSE BOOLEAN
ClickOutcomes(t, last) ==
  IF t \notin formOn THEN {FALSE} ELSE IF last THEN {TRUE} ELSE BOOLEAN

\* try_fill_on_frame has returned: its locals are gone.
Returned ==
  /\ sel' = 0
  /\ user_ok' = FALSE /\ pass_ok' = FALSE
  /\ filledAt' = NoFill

\* try_fill_on_frame is entered on Frame Target t (lines 171, 172), h the
\* history so far.
StartFrame(t, h) ==
  /\ target' = t
  /\ sel' = 1
  /\ user_ok' = FALSE /\ pass_ok' = FALSE
  /\ filledAt' = NoFill
  /\ hist' = [h EXCEPT ![t].tries = @ + 1]
  /\ pc' = "fill_user"

\* try_fill_on_frame returns ok to perform_login (lines 209-222).
FrameReturn(ok, h) ==
  IF ReturnsOn(ok)
    THEN /\ logged_in' = "true" /\ pc' = "login_done" /\ hist' = h
         /\ Returned
         /\ UNCHANGED <<target, nframes, formOn>>
  ELSE IF target = 0
    THEN /\ pc' = "frames" /\ hist' = h
         /\ Returned
         /\ UNCHANGED <<target, nframes, formOn, logged_in>>
  ELSE IF MoreFrames(target, nframes)
    THEN StartFrame(target + 1, h) /\ UNCHANGED <<nframes, formOn, logged_in>>
  ELSE /\ logged_in' = "false" /\ pc' = "login_done" /\ hist' = h
       /\ Returned
       /\ UNCHANGED <<target, nframes, formOn>>

\* A strategy's exception that no try/except of try_fill_on_frame catches:
\* on the page it leaves perform_login (line 209), on a nested frame the
\* except of line 219 takes it and the loop goes on.
Uncaught(h) ==
  IF target = 0
    THEN /\ error' = "StrategyError" /\ pc' = RaiseTo(TRUE) /\ hist' = h
         /\ UNCHANGED <<target, nframes, formOn, sel, user_ok, pass_ok, filledAt,
                        logged_in>>
  ELSE FrameReturn(FALSE, h) /\ UNCHANGED error

\* lines 202-206, then line 209; the page holds a login form or not
Reveal ==
  /\ pc = "reveal"
  /\ \E clicked \in BOOLEAN :
       IF clicked \/ Catches("reveal")
         THEN /\ StartFrame(0, hist)
              /\ \E f \in BOOLEAN : formOn' = IF f THEN {0} ELSE {}
              /\ UNCHANGED <<error, nframes, logged_in>>
       ELSE /\ error' = "StrategyError" /\ pc' = RaiseTo(TRUE)
            /\ UNCHANGED loginVars
  /\ UNCHANGED <<cfgVars, sessVars, capVars, modelVars, notifVars>>

\* lines 172-178: one username selector
FillUser ==
  /\ pc = "fill_user"
  /\ \E filled \in FillOutcomes(target, sel = NumUserSelectors) :
       IF filled
         THEN /\ user_ok' = TRUE
              /\ hist' = [hist EXCEPT ![target].user = TRUE]
              /\ filledAt' = [filledAt EXCEPT !.user = sel]
              /\ IF BreaksOnSuccess("user") \/ sel = NumUserSelectors
                   THEN pc' = "fill_pass" /\ sel' = 1
                   ELSE pc' = "fill_user" /\ sel' = sel + 1
              /\ UNCHANGED <<error, target, nframes, formOn, pass_ok, logged_in>>
       ELSE IF ~Catches("user") THEN Uncaught(hist)
       ELSE /\ IF sel < NumUserSelectors
                 THEN sel' = sel + 1 /\ pc' = "fill_user"
                 ELSE sel' = 1 /\ pc' = "fill_pass"
            /\ UNCHANGED <<error, target, nframes, formOn, user_ok, pass_ok, filledAt,
                           hist, logged_in>>
  /\ UNCHANGED <<cfgVars, sessVars, capVars, modelVars, notifVars>>

\* The password loop is over (line 189): submit, or return False (line 196).
AfterPass(p, f, h) ==
  IF BothFilled(user_ok, p)
    THEN /\ pc' = "submit" /\ sel' = 1 /\ pass_ok' = p /\ filledAt' = f /\ hist' = h
         /\ UNCHANGED <<target, nframes, formOn, user_ok, logged_in>>
  ELSE FrameReturn(FALSE, h)

\* lines 181-187: one password selector
FillPass ==
  /\ pc = "fill_pass"
  /\ \E filled \in FillOutcomes(target, sel = NumPassSelectors) :
       IF filled
         THEN LET f == [filledAt EXCEPT !.pass = sel]
                  h == [hist EXCEPT ![target].pass = TRUE]
              IN  IF BreaksOnSuccess("pass") \/ sel = NumPassSelectors
                    THEN AfterPass(TRUE, f, h) /\ UNCHANGED error
                    ELSE /\ sel' = sel + 1 /\ pass_ok' = TRUE
                         /\ filledAt' = f /\ hist' = h
                         /\ UNCHANGED <<pc, error, target, nframes, formOn, user_ok,
                                        logged_in>>
       ELSE IF ~Catches("pass") THEN Uncaught(hist)
       ELSE IF sel < NumPassSelectors
         THEN /\ sel' = sel + 1
              /\ UNCHANGED <<pc, error, target, nframes, formOn, user_ok, pass_ok,
                             filledAt, hist, logged_in>>
       ELSE AfterPass(pass_ok, filledAt, hist) /\ UNCHANGED error
  /\ UNCHANGED <<cfgVars, sessVars, capVars, modelVars, notifVars>>

\* lines 190-196: one submit selector
Submit ==
  /\ pc = "submit"
  /\ LET h == [hist EXCEPT ![target].submitTried = TRUE] IN
     \E clicked \in ClickOutcomes(target, sel = NumSubmitSelectors) :
       IF clicked
         THEN FrameReturn(TRUE, [h EXCEPT ![target].submitted = TRUE]) /\ UNCHANGED error
       ELSE IF ~Catches("submit") THEN Uncaught(h)
       ELSE IF sel < NumSubmitSelectors
         THEN /\ sel' = sel + 1 /\ hist' = h
              /\ UNCHANGED <<pc, error, target, nframes, formOn, user_ok, pass_ok,
                             filledAt, logged_in>>
       ELSE FrameReturn(FALSE, h) /\ UNCHANGED error
  /\ UNCHANGED <<cfgVars, sessVars, capVars, modelVars, notifVars>>

\* line 213: page.frames is read; the nested frames are tried in its order.
\* Each of them holds a login form or not.
Frames ==
  /\ pc = "frames"
  /\ \E n \in 0..MaxFrames :
       /\ nframes' = n
       /\ \E F \in SUBSET (1..n) : formOn' = formOn \cup F
       /\ IF n = 0
            THEN /\ logged_in' = "false" /\ pc' = "login_done"
                 /\ UNCHANGED <<target, sel, user_ok, pass_ok, filledAt, hist>>
            ELSE StartFrame(1, hist) /\ UNCHANGED logged_in
  /\ UNCHANGED <<error, cfgVars, sessVars, capVars, modelVars, notifVars>>

\* ------------------------------------------- run_once: after perform_login
\* lines 242-248: logged in, or the diagnostic screenshot
LoginDone ==
  /\ pc = "login_done"
  /\ IF logged_in = "true"
       THEN /\ pc' = "networkidle"
            /\ UNCHANGED <<shots, notifVars>>
       ELSE /\ shots' = shots \cup {"login_diag"}
            /\ IF DRY_RUN
                 THEN CallPhoto("login_diag", "raise_login", TRUE)
                 ELSE pc' = "raise_login" /\ UNCHANGED notifVars
  /\ UNCHANGED <<error, cfgVars, sessVars, loginVars, table_html, markupLen, capTried,
                 modelVars>>

\* line 249
RaiseLogin ==
  /\ pc = "raise_login"
  /\ error' = "LoginFieldsNotFound"
  /\ pc' = RaiseTo(TRUE)
  /\ UNCHANGED <<cfgVars, sessVars, loginVars, capVars, modelVars, notifVars>>

\* line 252: the wait returns, or raises its timeout
NetworkIdle ==
  /\ pc = "networkidle"
  /\ \/ pc' = "cap_worklist" /\ UNCHANGED error
     \/ pc' = RaiseTo(TRUE) /\ error' = "TimeoutError"
  /\ UNCHANGED <<cfgVars, sessVars, loginVars, capVars, modelVars, notifVars>>

\* A markup sub-step failed: the except takes it, or it leaves run_once.
CaptureFailed(step, next) ==
  IF CaptureCatches(step)
    THEN pc' = next /\ UNCHANGED error
    ELSE pc' = RaiseTo(TRUE) /\ error' = "CaptureError"

\* lines 263-268: the table in the container of the "Worklist" heading
CapWorklist ==
  /\ pc = "cap_worklist"
  /\ capTried' = Append(capTried, "worklist")
  /\ \/ /\ table_html' = "worklist" /\ markupLen' \in MarkupLens
        /\ pc' = "page_shot" /\ UNCHANGED error
     \/ /\ UNCHANGED <<table_html, markupLen>>
        /\ CaptureFailed("worklist", "cap_first_table")
  /\ UNCHANGED <<cfgVars, sessVars, loginVars, shots, modelVars, notifVars>>

\* lines 269-271: the first table of the document
CapFirstTable ==
  /\ pc = "cap_first_table"
  /\ capTried' = Append(capTried, "first_table")
  /\ \/ /\ table_html' = "first_table" /\ markupLen' \in MarkupLens
        /\ pc' = "page_shot" /\ UNCHANGED error
     \/ /\ UNCHANGED <<table_html, markupLen>>
        /\ CaptureFailed("first_table", "cap_content")
  /\ UNCHANGED <<cfgVars, sessVars, loginVars, shots, modelVars, notifVars>>

\* line 272: page.content() returns the document, or raises (it is in the
\* except clause of line 271, under no try of its own)
CapContent ==
  /\ pc = "cap_content"
  /\ capTried' = Append(capTried, "page")
  /\ \/ /\ table_html' = "page" /\ markupLen' \in MarkupLens
        /\ pc' = "page_shot" /\ UNCHANGED error
     \/ /\ UNCHANGED <<table_html, markupLen>>
        /\ pc' = RaiseTo(TRUE) /\ error' = "CaptureError"
  /\ UNCHANGED <<cfgVars, sessVars, loginVars, shots, modelVars, notifVars>>

\* lines 275-279
PageShot ==
  /\ pc = "page_shot"
  /\ shots' = shots \cup {"page"}
  /\ IF DRY_RUN
       THEN CallPhoto("page_shot", "close", TRUE)
       ELSE pc' = "close" /\ UNCHANGED notifVars
  /\ UNCHANGED <<error, cfgVars, sessVars, loginVars, table_html, markupLen, capTried,
                 modelVars>>

\* ------------------------------------------------------- ask_gpt_vision
\* lines 288, 124-138: the payload is built with the truncated markup; the
\* request raises, or a response arrives, raise_for_status looks at its status
\* and the answer is read from its body
Ask ==
  /\ pc = "ask"
  /\ modelCalls' = modelCalls + 1
  /\ payloadMarkup' = Truncate(markupLen)
  /\ \/ /\ error' = "RequestException" /\ pc' = ExtractionRaises(error')
        /\ UNCHANGED <<httpStatus, content>>
     \/ /\ httpStatus' = 200    \* a body without choices[0].message.content
        /\ error' = "KeyError" /\ pc' = ExtractionRaises(error')
        /\ UNCHANGED content
     \/ \E status \in ModelStatuses, c \in ModelContents :
          /\ httpStatus' = status
          /\ error' = raise_for_status(status)
          /\ content' = IF error' = "none" THEN c ELSE <<>>
          /\ pc' = IF error' = "none" THEN "parse" ELSE ExtractionRaises(error')
  /\ UNCHANGED <<cfgVars, sessVars, loginVars, capVars, parsePath, result, decided,
                 notifVars>>

\* lines 138-147
Parse ==
  /\ pc = "parse"
  /\ LET p == ParseContent(content) IN
       /\ parsePath' = p.path
       /\ result' = p.result
       /\ IF p.path = "JSONDecodeError"
            THEN error' = "JSONDecodeError" /\ pc' = ExtractionRaises(error')
            ELSE pc' = "decide" /\ UNCHANGED error
  /\ UNCHANGED <<cfgVars, sessVars, loginVars, capVars, modelCalls, httpStatus,
                 payloadMarkup, content, decided, notifVars>>

\* ------------------------------------------------ run_once: the decision
\* lines 290-310
Decide ==
  /\ pc = "decide"
  /\ IF DumpsResult(DRY_RUN)
       THEN /\ \E len \in DumpLens : CallText("dry_dump", len, "returned", FALSE)
            /\ UNCHANGED <<decided, error>>
       ELSE IF ~IsObject(result)
         THEN /\ error' = "AttributeError"    \* line 298: result.get on a number
              /\ pc' = RaiseTo(FALSE)
              /\ UNCHANGED <<decided, notifVars>>
       ELSE IF \/ GetRaises(result, "count_ct_mri_over_60:")
               \/ GetRaises(result, "by_modality:")
               \/ GetRaises(GetObj(result, "by_modality:"), "CT:")
               \/ GetRaises(GetObj(result, "by_modality:"), "MRI:")
         THEN /\ error' = "KeyError"
              /\ pc' = RaiseTo(FALSE)
              /\ UNCHANGED <<decided, notifVars>>
       ELSE LET ct_mri == GetInt(result, "count_ct_mri_over_60:", 0)
                by_mod == GetObj(result, "by_modality:")
                ct     == GetInt(by_mod, "CT:", 0)
                mri    == GetInt(by_mod, "MRI:", 0)
            IN /\ UNCHANGED error
               /\ decided' = [ct_mri |-> ct_mri, ct |-> ct, mri |-> mri,
                              alert |-> AlertDue(ct_mri)]
               /\ IF AlertDue(ct_mri)
                    THEN CallText("alert", ShortLen, "returned", FALSE)
                    ELSE pc' = "returned" /\ UNCHANGED notifVars
  /\ UNCHANGED <<cfgVars, sessVars, loginVars, capVars, modelCalls, httpStatus,
                 payloadMarkup, content, parsePath, result>>

\* ---------------------------------------------------------- the notifier
\* send_telegram_photo, lines 74-83: the request returns (whatever its
\* status: it is not looked at), or raises and the except reports it by text.
PhotoPost ==
  /\ pc = "photo_post"
  /\ \/ /\ posts' = Append(posts, [op |-> "photo", purpose |-> txt.purpose,
                                   lo |-> 0, hi |-> 0, outcome |-> "ok"])
        /\ pc' = retPc
        /\ UNCHANGED <<txt, off>>
     \/ /\ posts' = Append(posts, [op |-> "photo", purpose |-> txt.purpose,
                                   lo |-> 0, hi |-> 0, outcome |-> "raised"])
        /\ txt' = [purpose |-> "photo_error", len |-> ShortLen]
        /\ off' = 0
        /\ pc' = "text_post"
  /\ UNCHANGED <<error, cfgVars, sessVars, loginVars, capVars, modelVars, calls, retPc,
                 inWith>>

\* send_telegram_text, lines 60-71: one request; it returns, or raises and
\* nothing catches it.
TextPost ==
  /\ pc = "text_post"
  /\ LET whole == SendsWhole(txt.len)
         slice == IF whole THEN <<0, txt.len>> ELSE ChunkSlice(txt.len, off)
     IN \/ /\ posts' = Append(posts, [op |-> "text", purpose |-> txt.purpose,
                                      lo |-> slice[1], hi |-> slice[2], outcome |-> "ok"])
           /\ off' = IF whole THEN off ELSE NextOffset(off)
           /\ pc' = IF whole \/ ~(off' < txt.len) THEN retPc ELSE "text_post"
           /\ UNCHANGED error
        \/ /\ posts' = Append(posts, [op |-> "text", purpose |-> txt.purpose,
                                      lo |-> slice[1], hi |-> slice[2], outcome |-> "raised"])
           /\ error' = "DeliveryError"
           /\ pc' = RaiseTo(inWith)
           /\ UNCHANGED off
  /\ UNCHANGED <<cfgVars, sessVars, loginVars, capVars, modelVars, calls, txt, retPc, inWith>>

\* ---------------------------------------------------------- specifications
Next ==
  \/ Gate \/ Launch \/ Goto \/ Reveal \/ FillUser \/ FillPass \/ Submit \/ Frames
  \/ LoginDone \/ RaiseLogin \/ NetworkIdle
  \/ CapWorklist \/ CapFirstTable \/ CapContent \/ PageShot \/ Close \/ WithExit
  \/ Ask \/ Parse \/ Decide \/ PhotoPost \/ TextPost

Spec == Init /\ [][Next]_vars

\* The state when ask_gpt_vision has its response (line 138), after a run that
\* logged in on the page and captured the document.
AtModelResponse ==
  /\ DRY_RUN = FALSE /\ inWindow = TRUE
  /\ browser = "closed" /\ ctx = "closed"
  /\ browserCloses = 1 /\ ctxCloses = 1
  /\ error = "none"
  /\ target = 0 /\ nframes = 0 /\ sel = 0
  /\ formOn = {0}
  /\ user_ok = FALSE /\ pass_ok = FALSE
  /\ filledAt = NoFill
  /\ hist = [t \in Targets |->
               IF t = 0 THEN [user |-> TRUE, pass |-> TRUE, submitTried |-> TRUE,
                              submitted |-> TRUE, tries |-> 1]
               ELSE NoHist]
  /\ logged_in = "true"
  /\ shots = {"page"} /\ table_html = "page" /\ markupLen = MARKUP_CAP
  /\ capTried = <<"worklist", "first_table", "page">>
  /\ modelCalls = 1 /\ httpStatus = 200 /\ payloadMarkup = Truncate(markupLen)
  /\ parsePath = "none" /\ result = <<>> /\ decided = <<>>
  /\ calls = <<>> /\ posts = <<>>
  /\ txt = [purpose |-> "none", len |-> 0]
  /\ off = 0 /\ retPc = "none" /\ inWith = FALSE

\* SpecParse: the parse of ask_gpt_vision on every answer of up to MaxLen tokens.
ParseAlphabet == {"{", "}", "k:", "1", ",", "w"}
ParseInputs == UNION {[1..n -> ParseAlphabet] : n \in 0..MaxLen}

InitParse ==
  /\ pc = "parse"
  /\ content \in ParseInputs
  /\ AtModelResponse

NextParse == Parse

SpecParse == InitParse /\ [][NextParse]_vars

\* SpecChunk: send_telegram_text on a text of every length up to MaxTextLen.
InitChunk ==
  /\ pc = "text_post"
  /\ DRY_RUN = TRUE /\ inWindow = TRUE
  /\ browser = "closed" /\ ctx = "closed"
  /\ browserCloses = 1 /\ ctxCloses = 1
  /\ error = "none"
  /\ target = 0 /\ nframes = 0 /\ sel = 0
  /\ formOn = {0}
  /\ user_ok = FALSE /\ pass_ok = FALSE
  /\ filledAt = NoFill
  /\ hist = [t \in Targets |->
               IF t = 0 THEN [user |-> TRUE, pass |-> TRUE, submitTried |-> TRUE,
                              submitted |-> TRUE, tries |-> 1]
               ELSE NoHist]
  /\ logged_in = "true"
  /\ shots = {"page"} /\ table_html = "page" /\ markupLen = MARKUP_CAP
  /\ capTried = <<"worklist", "first_table", "page">>
  /\ modelCalls = 1 /\ httpStatus = 200 /\ payloadMarkup = Truncate(markupLen)
  /\ content = <<"{", "}">> /\ parsePath = "direct" /\ result = <<"{", "}">>
  /\ decided = <<>>
  /\ calls = <<[op |-> "text", purpose |-> "dry_dump"]>>
  /\ posts = <<>>
  /\ \E L \in 0..MaxTextLen : txt = [purpose |-> "dry_dump", len |-> L]
  /\ off = 0 /\ retPc = "returned" /\ inWith = FALSE

NextChunk == TextPost

SpecChunk == InitChunk /\ [][NextChunk]_vars

\* SpecTrunc: the request of ask_gpt_vision for a markup of every length near
\* 0 and near the cap, after a run that logged in on the page.
TruncLens == (0..MaxOver) \cup ((MARKUP_CAP - MaxOver)..(MARKUP_CAP + MaxOver))

InitTrunc ==
  /\ pc = "ask"
  /\ DRY_RUN = FALSE /\ inWindow = TRUE
  /\ browser = "closed" /\ ctx = "closed"
  /\ browserCloses = 1 /\ ctxCloses = 1
  /\ error = "none"
  /\ target = 0 /\ nframes = 0 /\ sel = 0
  /\ formOn = {0}
  /\ user_ok = FALSE /\ pass_ok = FALSE
  /\ filledAt = NoFill
  /\ hist = [t \in Targets |->
               IF t = 0 THEN [user |-> TRUE, pass |-> TRUE, submitTried |-> TRUE,
                              submitted |-> TRUE, tries |-> 1]
               ELSE NoHist]
  /\ logged_in = "true"
  /\ shots = {"page"} /\ table_html = "page" /\ markupLen \in TruncLens
  /\ capTried = <<"worklist", "first_table", "page">>
  /\ modelCalls = 0 /\ httpStatus = 0 /\ payloadMarkup = <<0, 0>> /\ content = <<>>
  /\ parsePath = "none" /\ result = <<>> /\ decided = <<>>
  /\ calls = <<>> /\ posts = <<>>
  /\ txt = [purpose |-> "none", len |-> 0]
  /\ off = 0 /\ retPc = "none" /\ inWith = FALSE

NextTrunc == Ask

SpecTrunc == InitTrunc /\ [][NextTrunc]_vars

\* ------------------------------------------------------------------ claims
Ended == pc \in {"returned", "raised"}
Called(purpose) == \E i \in DOMAIN calls : calls[i].purpose = purpose
Extracted == parsePath \in {"direct", "recovery"} /\ pc # "decide"

\* C1: a run that launched a browser session has closed the context and the
\* browser exactly once when it ends, however it ends, and the model is only
\* asked once they are closed.
C1_TeardownExactlyOnce ==
  /\ (Ended /\ browser # "none") =>
        /\ browser = "closed" /\ ctx = "closed"
        /\ browserCloses = 1 /\ ctxCloses = 1
  /\ browserCloses <= 1 /\ ctxCloses <= 1
  /\ modelCalls > 0 => browser = "closed" /\ ctx = "closed"

\* The run ended by the login discovery failure, the session torn down.
C1_Witness ==
  /\ pc = "raised" /\ error = "LoginFieldsNotFound"
  /\ browser = "closed" /\ browserCloses = 1

\* C2: on every Frame Target a submit is attempted only with both fields
\* filled on that target; perform_login returns true only after a submit
\* dispatched on a target with both fields filled, and false only if no submit
\* was dispatched on any target.
C2_SubmitOnlyAfterBothFills ==
  /\ \A t \in Targets :
        /\ hist[t].submitTried => hist[t].user /\ hist[t].pass
        /\ hist[t].submitted => hist[t].submitTried
  /\ pc = "submit" => user_ok /\ pass_ok
  /\ logged_in = "true" =>
        \E t \in Targets : hist[t].submitted /\ hist[t].user /\ hist[t].pass
  /\ logged_in = "false" => \A t \in Targets : ~hist[t].submitted

\* The page had only its username filled and no submit tried; the login
\* succeeded on the first nested frame.
C2_Witness ==
  /\ logged_in = "true"
  /\ hist[0].user /\ ~hist[0].pass /\ ~hist[0].submitTried
  /\ hist[1].user /\ hist[1].pass /\ hist[1].submitted

\* C3 (as claimed): once perform_login has returned false, the diagnostic
\* screenshot is taken, the notifier is called with it exactly in DRY_RUN mode,
\* the model is never asked, no alert or dump is sent, and the run ends with
\* the explicit error of line 249.
C3_DiscoveryExhaustion ==
  (logged_in = "false" /\ pc # "login_done") =>
     /\ "login_diag" \in shots
     /\ calls = IF DRY_RUN THEN <<[op |-> "photo", purpose |-> "login_diag"]>> ELSE <<>>
     /\ modelCalls = 0
     /\ pc # "returned"
     /\ pc = "raised" => error = "LoginFieldsNotFound"

\* C4 (as claimed): no exception of a Telegram request leaves the notifier.
C4_DeliveryFailureNeverRaised == error # "DeliveryError"

\* C5: in live mode, once the answer is parsed and the decision taken, the
\* alert is sent iff count_ct_mri_over_60 (0 when missing) is greater than
\* THRESHOLD.
C5_AlertIffOverThreshold ==
  (~DRY_RUN /\ Extracted /\ IsObject(result)) =>
     /\ Called("alert") <=> GetInt(result, "count_ct_mri_over_60:", 0) > THRESHOLD
     /\ GetInt(result, "count_ct_mri_over_60:", 0) = THRESHOLD => calls = <<>>
     /\ GetInt(result, "count_ct_mri_over_60:", 0) = THRESHOLD + 1 =>
           calls = <<[op |-> "text", purpose |-> "alert"]>>

\* A live run that read a count equal to the threshold and returned silently.
C5_Witness ==
  /\ ~DRY_RUN /\ pc = "returned" /\ parsePath = "direct"
  /\ GetInt(result, "count_ct_mri_over_60:", 0) = THRESHOLD
  /\ calls = <<>>

\* The first "{" and the last "}" of an answer, and the text between them.
FirstOpen(c) ==
  IF \E i \in DOMAIN c : c[i] = "{"
    THEN CHOOSE i \in DOMAIN c : c[i] = "{" /\ \A j \in 1..(i - 1) : c[j] # "{"
    ELSE 0
LastClose(c) ==
  IF \E i \in DOMAIN c : c[i] = "}"
    THEN CHOOSE i \in DOMAIN c : c[i] = "}" /\ \A j \in (i + 1)..Len(c) : c[j] # "}"
    ELSE 0
Braced(c) ==
  IF FirstOpen(c) > 0 /\ LastClose(c) > FirstOpen(c)
    THEN SubSeq(c, FirstOpen(c), LastClose(c))
    ELSE <<>>

\* The answer is parsed as it is; only if that fails, the text from its first
\* "{" to its last "}" is parsed; if that fails too, or there is no such text,
\* the decode error leaves the function and there is no result.
ParseThenRecover ==
  parsePath # "none" =>
    IF json_loads_ok(content)
      THEN parsePath = "direct" /\ result = content /\ error # "JSONDecodeError"
    ELSE IF Braced(content) # <<>> /\ json_loads_ok(Braced(content))
      THEN parsePath = "recovery" /\ result = Braced(content)
           /\ error # "JSONDecodeError"
    ELSE /\ parsePath = "JSONDecodeError" /\ error = "JSONDecodeError"
         /\ result = <<>> /\ pc = "raised"

\* C6 (as claimed): the answer is parsed as it is; only if that fails, the
\* text from its first "{" to its last "}" is parsed (ParseThenRecover); and
\* every answer that has no such text, or whose such text does not parse,
\* fails with the decode error and yields no result.
C6_ParseContract ==
  /\ ParseThenRecover
  /\ (parsePath # "none" /\ (Braced(content) = <<>> \/ ~json_loads_ok(Braced(content)))) =>
        /\ parsePath = "JSONDecodeError" /\ error = "JSONDecodeError"
        /\ result = <<>> /\ pc = "raised"

\* An object between two words of prose, parsed by the recovery path.
RecoveryReached ==
  /\ parsePath = "recovery"
  /\ Len(content) >= 3
  /\ content[1] = "w" /\ content[Len(content)] = "w"
  /\ result = SubSeq(content, 2, Len(content) - 1)

\* C7: when send_telegram_text returns, the requests it sent carry consecutive
\* slices of the text, in order, from its start to its end, none longer than
\* CHUNK; there is 1 when the length is at most CHUNK, else ceil(length / CHUNK);
\* a text of 3 * CHUNK + 10 is sent as 4.
C7_Chunking ==
  (pc = "returned" /\ txt.purpose = "dry_dump") =>
     LET L == txt.len
         n == Len(posts)
     IN /\ n = IF L <= CHUNK THEN 1 ELSE (L + CHUNK - 1) \div CHUNK
        /\ posts[1].lo = 0
        /\ posts[n].hi = L
        /\ \A k \in 1..n :
              /\ posts[k].op = "text"
              /\ posts[k].hi - posts[k].lo <= CHUNK
              /\ posts[k].lo <= posts[k].hi
              /\ k < n => posts[k].hi = posts[k + 1].lo
        /\ L = 3 * CHUNK + 10 => n = 4

\* A text of 3 * CHUNK + 10 characters, sent as four messages.
C7_Witness ==
  /\ pc = "returned" /\ txt.len = 3 * CHUNK + 10
  /\ Len(posts) = 4 /\ posts[4].lo = 3 * CHUNK /\ posts[4].hi = 3 * CHUNK + 10

\* C8: the model is asked at most once, after the login succeeded and the
\* capture was taken; a request that fails, an error status or an answer that
\* does not parse ends the run with that error, with no alert and no dump.
C8_OneModelCall ==
  /\ modelCalls <= 1
  /\ modelCalls = 1 =>
        logged_in = "true" /\ "page" \in shots /\ table_html # "none"
  /\ (httpStatus # 0 /\ httpStatus \notin 200..299) => error = "HTTPError"
  /\ parsePath = "JSONDecodeError" => error = "JSONDecodeError"
  /\ error \in {"RequestException", "HTTPError", "KeyError", "JSONDecodeError"} =>
        /\ pc = "raised"
        /\ modelCalls = 1
        /\ ~Called("alert") /\ ~Called("dry_dump")
        /\ decided = <<>>

\* The run ended by an answer that did not parse, after one request.
C8_Witness ==
  /\ pc = "raised" /\ error = "JSONDecodeError"
  /\ modelCalls = 1 /\ httpStatus = 200

\* C9: with DRY_RUN set the gate never skips the run; after the answer is
\* parsed send_telegram_text is called with the dump whatever the count is;
\* the threshold alert is never sent and no threshold decision is taken.
C9_DryRun ==
  DRY_RUN =>
     /\ pc \notin {"gate", "launch"} => browser # "none"
     /\ Extracted =>
           /\ Len(calls) > 0
           /\ calls[Len(calls)] = [op |-> "text", purpose |-> "dry_dump"]
     /\ ~Called("alert")
     /\ decided = <<>>

\* A dry run outside the window that dumped an answer whose count is over
\* the threshold.
C9_Witness ==
  /\ DRY_RUN /\ ~inWindow /\ pc = "returned"
  /\ GetInt(result, "count_ct_mri_over_60:", 0) > THRESHOLD
  /\ Called("dry_dump") /\ ~Called("alert")

\* C10: no exception of a reveal, fill or submit strategy leaves perform_login:
\* until it has returned the run is not ended by an exception of the engine;
\* with no nested frame and nothing filled or submitted on the page it
\* returns false.
C10_EngineNeverRaises ==
  /\ error # "StrategyError"
  /\ pc \in {"reveal", "fill_user", "fill_pass", "submit", "frames"} => error = "none"
  /\ (logged_in = "unset" /\ pc \in {"with_exit", "raised"}) => error = "NavigationError"
  /\ (logged_in # "unset" /\ nframes = 0 /\ ~hist[0].submitted) => logged_in = "false"

\* perform_login returned false: no nested frame, every strategy failed.
C10_Witness ==
  /\ pc = "login_done" /\ logged_in = "false" /\ nframes = 0
  /\ hist[0] = [NoHist EXCEPT !.tries = 1]
  /\ error = "none"

\* C11: the wait for network quiescence is advisory: when it times out the run
\* is not ended by the timeout, it goes on to the capture of the markup.
C11_QuiescenceAdvisory ==
  /\ error # "TimeoutError"
  /\ (logged_in = "true" /\ pc \in {"with_exit", "raised"}) => capTried # <<>>

\* C12: whatever the number of Frame Targets, when the last one in enumeration
\* order (the page itself when there is no nested frame) is the only one that
\* holds a login form, perform_login returns true, by a submit on that target.
LastTarget == IF 0 \in formOn THEN 0 ELSE nframes
C12_FrameIterationComplete ==
  (logged_in # "unset" /\ formOn = {LastTarget}) =>
      /\ logged_in = "true"
      /\ hist[LastTarget].submitted
      /\ \A t \in 0..LastTarget : hist[t].tries = 1

\* Login on the last of MaxFrames nested frames, after the page and every
\* earlier frame failed.
C12_Witness ==
  /\ logged_in = "true" /\ nframes = MaxFrames /\ formOn = {MaxFrames}
  /\ hist[MaxFrames].submitted
  /\ \A t \in 0..(MaxFrames - 1) : hist[t].tries = 1 /\ ~hist[t].submitted

\* C13: a parsed object that lacks count_ct_mri_over_60, by_modality, or the
\* CT or MRI entry of by_modality is processed without an exception, each
\* missing value being read as 0 in the decision.
Mentions(key) == \E i \in DOMAIN result : result[i] = key
C13_MissingKeysReadAsZero ==
  (~DRY_RUN /\ IsObject(result) /\ Extracted) =>
      /\ error \notin {"KeyError", "AttributeError"}
      /\ decided # <<>>
      /\ ~Mentions("count_ct_mri_over_60:") => decided.ct_mri = 0 /\ ~decided.alert
      /\ ~Mentions("by_modality:") => decided.ct = 0 /\ decided.mri = 0
      /\ ~Mentions("CT:") => decided.ct = 0
      /\ ~Mentions("MRI:") => decided.mri = 0

\* A live run that ended on an answer with neither the count nor the CT entry.
C13_Witness ==
  /\ ~DRY_RUN /\ pc = "returned" /\ error = "none"
  /\ result = <<"{", "by_modality:", "{", "MRI:", "26", "}", "}">>
  /\ decided = [ct_mri |-> 0, ct |-> 0, mri |-> 26, alert |-> FALSE]

\* C14: the markup put in the model request is the prefix of the captured
\* markup of length min(len, cap): a markup longer than the cap is cut to
\* exactly the cap, a markup no longer than the cap is sent whole.
C14_MarkupTruncation ==
  modelCalls >= 1 =>
      /\ payloadMarkup[1] = 0
      /\ markupLen > MARKUP_CAP => payloadMarkup[2] = MARKUP_CAP
      /\ markupLen <= MARKUP_CAP => payloadMarkup[2] = markupLen

\* A request for a markup longer than the cap.
C14_Witness ==
  /\ modelCalls = 1 /\ markupLen = MARKUP_CAP + 1
  /\ payloadMarkup = <<0, MARKUP_CAP>>

\* C15: discovery tries the page first, then each nested frame in
\* enumeration order, and when all of them failed it tries the page once
\* more before perform_login returns false.
C15_ScopeIteration ==
  /\ \A t \in 1..MaxFrames : hist[t].tries > 0 =>
        /\ t <= nframes
        /\ \A u \in 0..(t - 1) : hist[u].tries > 0 /\ ~hist[u].submitted
  /\ logged_in = "false" =>
        /\ hist[0].tries = 2
        /\ \A t \in 1..nframes : hist[t].tries = 1

\* C16: in each phase of try_fill_on_frame the strategies are attempted in
\* their declared order, one after the other from the first, and once one
\* has succeeded no later strategy of that phase is attempted on the target:
\* a further attempt of a phase is only made while the phase has no success.
FillPhases == {"fill_user", "fill_pass", "submit"}
C16_Step ==
  /\ (pc' \in FillPhases /\ pc' # pc) => sel' = 1
  /\ (pc' \in FillPhases /\ pc' = pc) =>
        \/ sel' = sel + 1 /\ target' = target
        \/ sel' = 1 /\ target' = target + 1 /\ pc' = "fill_user"
  /\ pc' = "fill_user" => sel' <= NumUserSelectors /\ ~user_ok' /\ filledAt'.user = 0
  /\ pc' = "fill_pass" => sel' <= NumPassSelectors /\ ~pass_ok' /\ filledAt'.pass = 0
  /\ pc' = "submit" => sel' <= NumSubmitSelectors /\ ~hist'[target'].submitted
  /\ (pc = "fill_user" /\ user_ok') => pc' = "fill_pass" /\ filledAt'.user = sel
  /\ (pc = "fill_pass" /\ pass_ok') => pc' = "submit" /\ filledAt'.pass = sel
  /\ (pc = "submit" /\ hist'[target].submitted) => pc' = "login_done"
C16_FirstSuccessShortCircuit == [][C16_Step]_vars

\* The second username selector filled after the first failed, the first
\* password selector filled: the later selectors of both phases were skipped
\* and the submit phase starts.
C16_Witness ==
  /\ pc = "submit" /\ sel = 1
  /\ filledAt = [user |-> 2, pass |-> 1]
  /\ user_ok /\ pass_ok

\* C17: on a Frame Target where both fields were filled and every click-based
\* submit strategy failed, the form is still submitted (by a key press on the
\* password field) and the target counts as a success: once its submit phase
\* is over, a target with both fields filled has a dispatched submit and
\* perform_login has returned true.
C17_SubmitLastResort ==
  \A t \in Targets :
    (hist[t].user /\ hist[t].pass /\ ~(t = target /\ pc = "submit")) =>
        /\ hist[t].submitted
        /\ logged_in = "true"

\* C18: the markup is taken from the worklist table first, on its failure
\* from the first table of the document, on that one's failure from the
\* whole document; each sub-step is attempted at most once, in that order,
\* the markup is that of the last sub-step attempted, and a failure of the
\* first or the second sub-step never ends the run.
CaptureOrder == <<"worklist", "first_table", "page">>
C18_CaptureFallbackOrder ==
  /\ Len(capTried) <= 3
  /\ \A i \in DOMAIN capTried : capTried[i] = CaptureOrder[i]
  /\ table_html # "none" => table_html = capTried[Len(capTried)]
  /\ pc = "cap_first_table" => capTried = <<"worklist">> /\ error = "none"
  /\ pc = "cap_content" => capTried = <<"worklist", "first_table">> /\ error = "none"
  /\ error = "CaptureError" => capTried = CaptureOrder /\ table_html = "none"
  /\ (Len(capTried) \in {1, 2} /\ pc \notin {"cap_first_table", "cap_content"}) =>
        table_html = capTried[Len(capTried)]

\* Both table sub-steps failed and the whole document was taken.
C18_Witness ==
  /\ pc = "page_shot" /\ error = "none"
  /\ capTried = CaptureOrder /\ table_html = "page"

\* C19: in one call of perform_login at most one submit click succeeds; it is
\* the last thing the engine does: no fill and no click is attempted after it
\* on any Frame Target and perform_login returns true; a target on which
\* try_fill_on_frame returned false had no successful submit click.
Submitted == {t \in Targets : hist[t].submitted}
C19_AtMostOneSubmit ==
  /\ Cardinality(Submitted) <= 1
  /\ \A t \in Submitted :
        /\ t = target /\ hist[t].tries = 1
        /\ pc \notin FillPhases \cup {"reveal", "frames"}
        /\ logged_in = "true"
        /\ \A u \in Targets : u > t => hist[u] = NoHist
  /\ \A t \in Targets :
        (t < target \/ logged_in = "false" \/ pc = "frames") => ~hist[t].submitted

\* The page had both fields filled but no click succeeded, the first nested
\* frame was submitted and the second one was never touched.
C19_Witness ==
  /\ logged_in = "true" /\ nframes = 2 /\ target = 1
  /\ hist[0].submitTried /\ ~hist[0].submitted
  /\ hist[1].submitted
  /\ hist[2] = NoHist

\* C20: with DRY_RUN off and within_window_now false, run_once ends at the
\* gate without effect: no browser session, no login attempt, no screenshot,
\* no model call, no notification, no exception.
C20_GateSkipsWithoutEffect ==
  (~DRY_RUN /\ ~inWindow /\ pc # "gate") =>
      /\ pc = "returned" /\ error = "none"
      /\ browser = "none" /\ ctx = "none"
      /\ logged_in = "unset" /\ \A t \in Targets : hist[t] = NoHist
      /\ shots = {} /\ table_html = "none"
      /\ modelCalls = 0
      /\ calls = <<>> /\ posts = <<>>

\* A live run outside the window, ended at the gate.
C20_Witness ==
  /\ ~DRY_RUN /\ ~inWindow /\ pc = "returned"
  /\ browser = "none" /\ modelCalls = 0 /\ posts = <<>>
====
